---- MODULE Spec2Model ----
(***************************************************************************)
(* Transaction-status reconciliation (notes/tasks.py, the management       *)
(* command update_transaction_status) and the resilient remote call it     *)
(* goes through (notes/utils.py: retry_on_failure, CircuitBreaker,         *)
(* with_circuit_breaker, cached_blockfrost_call, safe_blockfrost_call).    *)
(*                                                                         *)
(* time.time() is counted in ticks of half a second, the initial retry     *)
(* delay, on a clock whose origin is the present: the program reads stored *)
(* times only through differences with the present, so a stored time is    *)
(* kept relative to it and moves back when time passes.  timezone.now(),   *)
(* which stamps the rows and is never read back, is the number of the      *)
(* invocation that writes.                                                 *)
(***************************************************************************)
EXTENDS Integers, Sequences, FiniteSets, TLC

\* ---------------------------------------------------------------- bounds
NumRecords == 2      \* records in the Transaction table
MaxRuns == 2         \* invocations of the management command
MaxCalls == 2        \* calls of safe_blockfrost_call made by a caller on its own
MaxFailures == 6     \* record_failure calls in a row made on the circuit breaker on its own
MaxLookups == 3      \* calls made through the cache wrapper on its own
MaxRejections == 2   \* calls in a row the open circuit rejects
NumCallers == 2      \* threads that call record_failure at the same time
MaxRecorded == 3     \* record_failure calls one such thread makes
Height == 500        \* a block height the remote reports
SlotNo == 12345      \* a slot the remote reports

\* ------------------------------------------------------ program constants
TicksPerSecond == 2          \* delay=0.5 s is one tick
max_retries == 2             \* @retry_on_failure(max_retries=2, ...)
delay == 1                   \* delay=0.5 s
backoff == 2                 \* backoff=2 (default)
failure_threshold == 5       \* CircuitBreaker(failure_threshold=5, ...)
recovery_seconds == 60       \* recovery_timeout=60
cache_seconds == 300         \* BLOCKFROST_CACHE_TIMEOUT default
default_limit == 100         \* --limit default

recovery_timeout == recovery_seconds * TicksPerSecond
cache_timeout == cache_seconds * TicksPerSecond

\* -------------------------------------------------------------- values
\* Python's None and a present value.
None == << >>
Some(v) == << v >>

Ids == 1..NumRecords          \* a record's id; its tx_hash; its created_at rank

STATUS_CHOICES == {"pending", "submitted", "confirmed", "failed"}

\* Transaction.is_final
is_final(status) == status \in {"confirmed", "failed"}

\* What one invocation of api.transaction(tx_hash) produces: a response
\* (kind "ok") or a raised exception (ApiError with a status code, or any other
\* exception).  The remote's errors are not-found (404) and one other code, 503,
\* the code the circuit breaker's own error carries too.
Response(bh, sl) ==
    [kind |-> "ok", status_code |-> 200, message |-> "ok", block_height |-> bh, slot |-> sl]
ApiError(msg, code) ==
    [kind |-> "ApiError", status_code |-> code, message |-> msg, block_height |-> None, slot |-> None]
OtherException ==
    [kind |-> "Exception", status_code |-> 0, message |-> "remote", block_height |-> None, slot |-> None]

Answers ==
    { Response(Some(Height), Some(SlotNo)),
      Response(Some(Height), None),
      Response(None, None),
      ApiError("remote", 404),
      ApiError("remote", 503),
      OtherException }

\* The error with_circuit_breaker raises when the circuit is open.
CircuitOpenError == ApiError("Circuit breaker is open - service temporarily unavailable", 503)

\* Time between two invocations of the command.
Gaps == {0, recovery_timeout - delay, recovery_timeout, cache_timeout}

Limits == {1, NumRecords, default_limit}

\* A new Transaction row: status default 'pending', or 'submitted'/'failed' as
\* the submission view creates it; no confirmation metadata.
NewTransaction(id, st) ==
    [id |-> id, status |-> st, confirmed_at |-> None, block_height |-> None,
     slot |-> None, updated_at |-> 0, created_at |-> id]

VARIABLES
    records,      \* the Transaction table: id -> row
    remote,       \* a steady remote's answer for each tx_hash (SpecSteady)
    bcache,       \* blockfrost_cache: key -> None or <<[value, expires]>>
    circuit,      \* the default cache's entry under the circuit key
    job,          \* the running invocation: control state and locals
    runs,         \* invocations started so far
    call,         \* the last call of safe_blockfrost_call made on its own: what it did
                  \* and what check_transaction_status makes of it
    calls,        \* such calls made so far
    cb,           \* the CircuitBreaker used on its own: the last operation and the
                  \* history of record_failure calls
    rival,        \* a second invocation of the command that overlaps the first
    callers       \* concurrent callers of record_failure: where each is in it and
                  \* the entry it has read

vars ==
    << records, remote, bcache, circuit, job, runs, call, calls, cb, rival, callers >>

\* time.time(): the present.
now == 0

\* timezone.now(): the stamp a row written now gets.
timezone_now == runs

\* ------------------------------------------------------- django cache
\* cache.get: None for an absent or expired entry.
cache_get(entry, t) ==
    IF entry = None \/ entry[1].expires <= t THEN None ELSE Some(entry[1].value)

\* cache.set(key, value, timeout)
cache_set(value, t, timeout) == Some([value |-> value, expires |-> t + timeout])

\* The circuit entry and the result cache after d ticks have passed; an entry
\* that has expired by then is absent.
ElapseCircuit(entry, d) ==
    IF entry = None \/ entry[1].expires <= d THEN None
    ELSE Some([value |-> [failure_count |-> entry[1].value.failure_count,
                          last_failure_time |-> entry[1].value.last_failure_time - d],
               expires |-> entry[1].expires - d])

ElapseCache(bc, d) ==
    [k \in DOMAIN bc |->
        IF bc[k] = None \/ bc[k][1].expires <= d THEN None
        ELSE Some([value |-> bc[k][1].value, expires |-> bc[k][1].expires - d])]

\* ------------------------------------------------------ CircuitBreaker
\* is_open with the threshold test lost: never open.
is_open_never(entry, t) == [open |-> FALSE, entry |-> entry]

\* is_open with the comparison of the elapsed time made inclusive.
is_open_inclusive(entry, t) ==
    LET failure_data == cache_get(entry, t) IN
    IF failure_data = None THEN [open |-> FALSE, entry |-> entry]
    ELSE IF failure_data[1].failure_count >= failure_threshold
         THEN IF t - failure_data[1].last_failure_time <= recovery_timeout
              THEN [open |-> TRUE, entry |-> entry]
              ELSE [open |-> FALSE, entry |-> None]
         ELSE [open |-> FALSE, entry |-> entry]

\* is_open with the cache.delete of the recovery branch lost.
is_open_keep(entry, t) ==
    LET failure_data == cache_get(entry, t) IN
    IF failure_data = None THEN [open |-> FALSE, entry |-> entry]
    ELSE IF failure_data[1].failure_count >= failure_threshold
         THEN IF t - failure_data[1].last_failure_time < recovery_timeout
              THEN [open |-> TRUE, entry |-> entry]
              ELSE [open |-> FALSE, entry |-> entry]
         ELSE [open |-> FALSE, entry |-> entry]

\* is_open: the answer and the entry it leaves.
is_open(entry, t) ==
    LET failure_data == cache_get(entry, t) IN
    IF failure_data = None THEN [open |-> FALSE, entry |-> entry]
    ELSE IF failure_data[1].failure_count >= failure_threshold
         THEN IF t - failure_data[1].last_failure_time < recovery_timeout
              THEN [open |-> TRUE, entry |-> entry]
              ELSE [open |-> FALSE, entry |-> None]
         ELSE [open |-> FALSE, entry |-> entry]

\* record_success with the cache.delete lost.
record_success_noop(entry) == entry

record_success(entry) == None

\* record_failure with the entry kept for recovery_timeout only.
record_failure_short(entry, t) ==
    LET failure_data == cache_get(entry, t)
        failure_count == IF failure_data # None THEN failure_data[1].failure_count + 1 ELSE 1
    IN cache_set([failure_count |-> failure_count, last_failure_time |-> t],
                 t, recovery_timeout)

\* cache.get(key), the count plus one or 1, cache.set(key, {count, now},
\* timeout=recovery_timeout * 2)
record_failure(entry, t) ==
    LET failure_data == cache_get(entry, t)
        failure_count == IF failure_data # None THEN failure_data[1].failure_count + 1 ELSE 1
    IN cache_set([failure_count |-> failure_count, last_failure_time |-> t],
                 t, recovery_timeout * 2)

\* ------------------------------------------------ cached_blockfrost_call
\* The key is derived from the function name and the arguments, here the bound
\* method api.transaction and the hash; the job's lookups of one hash are taken
\* to present the same function, so the hash tells the keys apart.
CacheKeys == Ids
cache_key(tx_hash) == tx_hash

\* The cache wrapper storing whatever the call produced, a failure included.
cached_blockfrost_call_any(bc, key, t, answer) ==
    LET cached_result == cache_get(bc[key], t) IN
    IF cached_result # None
    THEN [outcome |-> cached_result[1], bcache |-> bc, invoked |-> FALSE]
    ELSE [outcome |-> answer,
          bcache |-> [bc EXCEPT ![key] = cache_set(answer, t, cache_timeout)],
          invoked |-> TRUE]

\* One pass through the cache wrapper around func: the outcome, the cache it
\* leaves and whether func was invoked.  answer is what func produces if
\* invoked.
cached_blockfrost_call(bc, key, t, answer) ==
    LET cached_result == cache_get(bc[key], t) IN
    IF cached_result # None
    THEN [outcome |-> cached_result[1], bcache |-> bc, invoked |-> FALSE]
    ELSE IF answer.kind = "ok"
         THEN [outcome |-> answer,
               bcache |-> [bc EXCEPT ![key] = cache_set(answer, t, cache_timeout)],
               invoked |-> TRUE]
         ELSE [outcome |-> answer, bcache |-> bc, invoked |-> TRUE]

\* -------------------------------------------------- with_circuit_breaker
\* The wrapper with the rejection raised inside the try block: the except
\* clause records it as a failure.
with_circuit_breaker_counting(circ, bc, key, t, answer) ==
    LET gate == is_open(circ, t) IN
    IF gate.open
    THEN [outcome |-> CircuitOpenError, circuit |-> record_failure(gate.entry, t),
          bcache |-> bc, invoked |-> FALSE, rejected |-> TRUE, success |-> 0, failure |-> 1]
    ELSE LET r == cached_blockfrost_call(bc, key, t, answer) IN
         IF r.outcome.kind = "ok"
         THEN [outcome |-> r.outcome, circuit |-> record_success(gate.entry),
               bcache |-> r.bcache, invoked |-> r.invoked, rejected |-> FALSE,
               success |-> 1, failure |-> 0]
         ELSE [outcome |-> r.outcome, circuit |-> record_failure(gate.entry, t),
               bcache |-> r.bcache, invoked |-> r.invoked, rejected |-> FALSE,
               success |-> 0, failure |-> 1]

\* One pass through the circuit-breaker wrapper around the cache wrapper.
with_circuit_breaker(circ, bc, key, t, answer) ==
    LET gate == is_open(circ, t) IN
    IF gate.open
    THEN [outcome |-> CircuitOpenError, circuit |-> gate.entry, bcache |-> bc,
          invoked |-> FALSE, rejected |-> TRUE, success |-> 0, failure |-> 0]
    ELSE LET r == cached_blockfrost_call(bc, key, t, answer) IN
         IF r.outcome.kind = "ok"
         THEN [outcome |-> r.outcome, circuit |-> record_success(gate.entry),
               bcache |-> r.bcache, invoked |-> r.invoked, rejected |-> FALSE,
               success |-> 1, failure |-> 0]
         ELSE [outcome |-> r.outcome, circuit |-> record_failure(gate.entry, t),
               bcache |-> r.bcache, invoked |-> r.invoked, rejected |-> FALSE,
               success |-> 0, failure |-> 1]

\* ------------------------------------------------------ retry_on_failure
\* The decision with retrying lost: every failure is re-raised at once.
retry_decision_no_retry(outcome, attempt) ==
    IF outcome.kind = "ok" THEN "return" ELSE "raise"

\* The decision with the exception tuple widened to every exception.
retry_decision_any_exception(outcome, attempt) ==
    IF outcome.kind = "ok" THEN "return"
    ELSE IF attempt = max_retries THEN "raise" ELSE "sleep"

\* What the retry wrapper does with the outcome of attempt number attempt
\* (counted from 0): returns the result, re-raises, or sleeps and tries again.
retry_decision(outcome, attempt) ==
    IF outcome.kind = "ok" THEN "return"
    ELSE IF outcome.kind = "ApiError"
         THEN IF attempt = max_retries THEN "raise" ELSE "sleep"
         ELSE "raise"

\* The answers the remote would give at the attempts of one call; an answer
\* that ends the call when it is received is repeated for the attempts after it.
AnswerSeqs ==
    { s \in [1..(max_retries + 1) -> Answers] :
        \A k \in 1..max_retries : s[k].kind # "ApiError" => s[k + 1] = s[k] }

RECURSIVE retry_on_failure(_, _, _, _, _, _, _)
\* The retry loop from attempt number attempt on, around the circuit breaker,
\* the cache and the lookup: the call's outcome, the circuit entry and the cache
\* it leaves, and what each attempt did (the entry and the cached value it
\* found, whether the gate rejected it, whether the lookup was invoked, what it
\* reported to the circuit breaker, how long the loop slept after it).
retry_on_failure(circ, bc, key, answers, attempt, current_delay, trace) ==
    LET r == with_circuit_breaker(circ, bc, key, now, answers[attempt + 1])
        d == retry_decision(r.outcome, attempt)
        ev == [entry |-> circ, cached |-> cache_get(bc[key], now),
               rejected |-> r.rejected, invoked |-> r.invoked, outcome |-> r.outcome,
               success |-> r.success, failure |-> r.failure, left |-> r.circuit,
               wait |-> IF d = "sleep" THEN current_delay ELSE 0]
    IN IF d = "sleep"
       THEN retry_on_failure(ElapseCircuit(r.circuit, current_delay),
                             ElapseCache(r.bcache, current_delay),
                             key, answers, attempt + 1, current_delay * backoff,
                             Append(trace, ev))
       ELSE [outcome |-> r.outcome, circuit |-> r.circuit, bcache |-> r.bcache,
             trace |-> Append(trace, ev)]

\* safe_blockfrost_call(api.transaction, tx_hash)
safe_blockfrost_call(circ, bc, tx_hash, answers) ==
    retry_on_failure(circ, bc, cache_key(tx_hash), answers, 0, delay, << >>)

\* ---------------------------------------------- check_transaction_status
Truthy(x) == x # None /\ x # Some(0)

\* The exception class and status code of an outcome: what an except clause
\* and a test of e.status_code can tell apart.
Signal(outcome) == [kind |-> outcome.kind, status_code |-> outcome.status_code]

\* The (status, details) pair returned for a call's outcome.  details is
\* whether the details dict is given (not None), keys its keys, and
\* block_height, slot, error, error_code its values (None for a key it lacks).
check_transaction_status(outcome) ==
    IF outcome.kind = "ok"
    THEN IF Truthy(outcome.block_height)
         THEN [status |-> "confirmed", details |-> TRUE, keys |-> {"block_height", "slot"},
               block_height |-> outcome.block_height, slot |-> outcome.slot,
               error |-> None, error_code |-> None]
         ELSE [status |-> "submitted", details |-> FALSE, keys |-> {},
               block_height |-> None, slot |-> None,
               error |-> None, error_code |-> None]
    ELSE IF outcome.kind = "ApiError"
         THEN IF outcome.status_code = 404
              THEN [status |-> "pending", details |-> FALSE, keys |-> {},
                    block_height |-> None, slot |-> None,
                    error |-> None, error_code |-> None]
              ELSE [status |-> "failed", details |-> TRUE, keys |-> {"error", "error_code"},
                    block_height |-> None, slot |-> None,
                    error |-> Some(outcome.message), error_code |-> Some(outcome.status_code)]
         ELSE [status |-> "failed", details |-> TRUE, keys |-> {"error"},
               block_height |-> None, slot |-> None,
               error |-> Some(outcome.message), error_code |-> None]

\* ------------------------------------------- update_transaction_statuses
RECURSIVE Ordered(_)
\* The ids of S in ascending created_at order.
Ordered(S) ==
    IF S = {} THEN << >>
    ELSE LET m == CHOOSE x \in S : \A y \in S : x <= y
         IN << m >> \o Ordered(S \ {m})

\* The slice with its bound off by one.
TakeOneMore(s, n) == SubSeq(s, 1, IF n + 1 < Len(s) THEN n + 1 ELSE Len(s))

\* [:limit]
Take(s, n) == SubSeq(s, 1, IF n < Len(s) THEN n ELSE Len(s))

\* The selection with the status filter lost.
SelectBatchAll(recs, limit) ==
    LET ids == Take(Ordered(Ids), limit)
    IN [k \in 1..Len(ids) |-> recs[ids[k]]]

\* The selection with the [:limit] slice lost.
SelectBatchNoLimit(recs, limit) ==
    LET ids == Ordered({i \in Ids : recs[i].status \in {"pending", "submitted"}})
    IN [k \in 1..Len(ids) |-> recs[ids[k]]]

\* filter(status__in=['pending','submitted']).order_by('created_at')[:limit],
\* evaluated once: the rows as they are read.
SelectBatch(recs, limit) ==
    LET ids == Take(Ordered({i \in Ids : recs[i].status \in {"pending", "submitted"}}), limit)
    IN [k \in 1..Len(ids) |-> recs[ids[k]]]

\* The update with the test for the confirmed status lost: any details stamp
\* the confirmation fields.
UpdatedTransactionAnyDetails(txn, c, t) ==
    LET base == [txn EXCEPT !.status = c.status, !.updated_at = t] IN
    IF c.details
    THEN [base EXCEPT !.confirmed_at = Some(t),
                      !.block_height = c.block_height,
                      !.slot = c.slot]
    ELSE base

\* The update with the assignment of the slot lost.
UpdatedTransactionNoSlot(txn, c, t) ==
    LET base == [txn EXCEPT !.status = c.status, !.updated_at = t] IN
    IF c.status = "confirmed" /\ c.details
    THEN [base EXCEPT !.confirmed_at = Some(t),
                      !.block_height = c.block_height]
    ELSE base

\* The in-memory transaction after the job assigns the classified status.
UpdatedTransaction(txn, c, t) ==
    LET base == [txn EXCEPT !.status = c.status, !.updated_at = t] IN
    IF c.status = "confirmed" /\ c.details
    THEN [base EXCEPT !.confirmed_at = Some(t),
                      !.block_height = c.block_height,
                      !.slot = c.slot]
    ELSE base

\* The test with the comparison lost: every examined record is written.
needs_update_always(status, transaction) == TRUE

\* if status != transaction.status
needs_update(status, transaction) == status # transaction.status

\* The locals of an invocation: limit is the argument, selected the number of
\* rows the queryset holds, aborted whether the invocation returned for a
\* missing API key; updated, errors and processed are the summary.
IdleJob ==
    [pc |-> "idle", dry_run |-> FALSE, configured |-> TRUE, limit |-> 0, selected |-> 0,
     aborted |-> FALSE, batch |-> << >>, idx |-> 0, updated |-> 0, errors |-> 0, processed |-> 0]

\* The start of an invocation with the test of the API key lost.
StartedJobNoCheck(batch, limit, dry_run, configured) ==
    IF Len(batch) = 0
    THEN [IdleJob EXCEPT !.pc = "done", !.dry_run = dry_run, !.configured = configured,
                         !.limit = limit]
    ELSE [IdleJob EXCEPT !.pc = "loop", !.dry_run = dry_run, !.configured = configured,
                         !.limit = limit, !.selected = Len(batch), !.batch = batch, !.idx = 1]

\* update_transaction_statuses up to the loop: the return for an empty
\* selection, the return for a missing API key (configured is whether
\* settings.BLOCKFROST_PROJECT_ID is set), the counters at zero.
StartedJob(batch, limit, dry_run, configured) ==
    IF Len(batch) = 0
    THEN [IdleJob EXCEPT !.pc = "done", !.dry_run = dry_run, !.configured = configured,
                         !.limit = limit]
    ELSE IF ~configured
         THEN [IdleJob EXCEPT !.pc = "done", !.dry_run = dry_run,
                              !.configured = configured, !.limit = limit,
                              !.selected = Len(batch), !.aborted = TRUE, !.errors = 1]
         ELSE [IdleJob EXCEPT !.pc = "loop", !.dry_run = dry_run,
                              !.configured = configured, !.limit = limit,
                              !.selected = Len(batch), !.batch = batch, !.idx = 1]

\* The handler of an exception with the exception passed on: the loop ends.
handle_exception_abort(j) ==
    [j EXCEPT !.errors = @ + 1, !.pc = "done", !.batch = << >>, !.idx = 0]

\* except Exception in the loop: the error is counted and the loop goes on.
\* j is the job as it stands after the iteration.
handle_exception(j) == [j EXCEPT !.errors = @ + 1]

NoCall ==
    [tx_hash |-> 0, gap |-> 0, outcome |-> OtherException, trace |-> << >>,
     checked |-> check_transaction_status(OtherException)]

\* The circuit breaker not yet used on its own.
IdleBreaker ==
    [op |-> "none", open |-> FALSE, before |-> None, fails |-> 0, fresh |-> TRUE,
     idle |-> 0, recovered |-> FALSE, rejections |-> 0]

Callers == 1..NumCallers

\* A thread outside record_failure, having made done calls of it.
IdleCaller == [pc |-> "idle", failure_data |-> None, done |-> 0]

InitBase ==
    /\ cb = IdleBreaker
    /\ bcache = [k \in CacheKeys |-> None]
    /\ circuit = None
    /\ job = IdleJob
    /\ runs = 0
    /\ call = NoCall
    /\ calls = 0
    /\ rival = IdleJob
    /\ callers = [c \in Callers |-> IdleCaller]

\* Any remote behaviour: each lookup draws its answer; remote is not consulted.
Init ==
    /\ InitBase
    /\ records \in { [i \in Ids |-> NewTransaction(i, st[i])] :
                        st \in [Ids -> {"pending", "submitted", "failed"}] }
    /\ remote = [h \in Ids |-> ApiError("remote", 404)]

\* Command.handle up to the loop: the options, the selection, the empty-batch
\* return and the missing-key return.  gap is the time since the previous
\* invocation.
StartRun(gap, limit, dry_run, configured) ==
    /\ job.pc \in {"idle", "done"}
    /\ runs < MaxRuns
    /\ runs = 0 => gap = 0
    /\ circuit' = ElapseCircuit(circuit, gap)
    /\ bcache' = ElapseCache(bcache, gap)
    /\ runs' = runs + 1
    /\ job' = StartedJob(SelectBatch(records, limit), limit, dry_run, configured)
    /\ UNCHANGED << records, remote, call, calls, cb, rival, callers >>

\* One iteration of the loop: the lookup through safe_blockfrost_call, the
\* classification, the write if the status differs (save may raise), and then
\* the next record or the summary.
ProcessRecord(answers, save_ok) ==
    /\ job.pc = "loop"
    /\ \E r \in {safe_blockfrost_call(circuit, bcache, job.batch[job.idx].id, answers)} :
       LET txn == job.batch[job.idx]
           c == check_transaction_status(r.outcome)
           changed == needs_update(c.status, txn)
           last == job.idx = Len(job.batch)
           next == [job EXCEPT !.pc = IF last THEN "done" ELSE "loop",
                               !.batch = IF last THEN << >> ELSE @,
                               !.idx = IF last THEN 0 ELSE @ + 1,
                               !.processed = @ + 1]
       IN /\ circuit' = r.circuit
          /\ bcache' = r.bcache
          /\ IF changed
             THEN IF save_ok
                  THEN /\ records' = [records EXCEPT ![txn.id] =
                                              UpdatedTransaction(txn, c, timezone_now)]
                       /\ job' = [next EXCEPT !.updated = @ + 1]
                  ELSE /\ job' = handle_exception(next)
                       /\ UNCHANGED records
             ELSE /\ save_ok
                  /\ job' = next
                  /\ UNCHANGED records
    /\ UNCHANGED << remote, runs, call, calls, cb, rival, callers >>

Next ==
    \/ \E gap \in Gaps, limit \in Limits, dry_run \in BOOLEAN, configured \in BOOLEAN :
          StartRun(gap, limit, dry_run, configured)
    \/ \E answers \in AnswerSeqs, save_ok \in BOOLEAN : ProcessRecord(answers, save_ok)

Spec == Init /\ [][Next]_vars

\* ------------------------------------------------- against a steady remote
\* The answer for each hash is fixed for the whole behaviour, so it is the same
\* during every run.
InitSteady ==
    /\ InitBase
    /\ records \in { [i \in Ids |-> NewTransaction(i, st[i])] :
                        st \in [Ids -> {"pending", "submitted", "failed"}] }
    /\ remote \in [Ids -> Answers]

ProcessRecordSteady(save_ok) ==
    /\ job.pc = "loop"
    /\ ProcessRecord([k \in 1..(max_retries + 1) |-> remote[job.batch[job.idx].id]], save_ok)

\* The store does not fail here: every save succeeds.
NextSteady ==
    \/ \E gap \in Gaps, limit \in Limits, dry_run \in BOOLEAN, configured \in BOOLEAN :
          StartRun(gap, limit, dry_run, configured)
    \/ ProcessRecordSteady(TRUE)

SpecSteady == InitSteady /\ [][NextSteady]_vars

\* ------------------------------------------ safe_blockfrost_call on its own
RECURSIVE FailuresInARow(_)
\* The circuit entry after c calls of record_failure in a row at the present.
FailuresInARow(c) ==
    IF c = 0 THEN None ELSE record_failure(FailuresInARow(c - 1), now)

\* The caller starts with an empty result cache and with the circuit entry
\* that up to failure_threshold failures in a row have left.
InitCall ==
    /\ cb = IdleBreaker
    /\ bcache = [k \in CacheKeys |-> None]
    /\ circuit \in { FailuresInARow(c) : c \in 0..failure_threshold }
    /\ job = IdleJob
    /\ runs = 0
    /\ call = NoCall
    /\ calls = 0
    /\ rival = IdleJob
    /\ callers = [c \in Callers |-> IdleCaller]
    /\ records = [i \in Ids |-> NewTransaction(i, "pending")]
    /\ remote = [h \in Ids |-> ApiError("remote", 404)]

\* A caller calls safe_blockfrost_call(api.transaction, tx_hash) the way
\* check_transaction_status does, gap ticks after the previous call returned (or
\* after the failures it starts with); checked is what check_transaction_status
\* returns for the call's outcome.
Call(tx_hash, answers, gap) ==
    /\ calls < MaxCalls
    /\ \E r \in {safe_blockfrost_call(ElapseCircuit(circuit, gap), ElapseCache(bcache, gap),
                                     tx_hash, answers)} :
          /\ circuit' = r.circuit
          /\ bcache' = r.bcache
          /\ call' = [tx_hash |-> tx_hash, gap |-> gap, outcome |-> r.outcome,
                      trace |-> r.trace,
                      checked |-> check_transaction_status(r.outcome)]
    /\ calls' = calls + 1
    /\ UNCHANGED << records, remote, job, runs, cb, rival, callers >>

NextCall == \E tx_hash \in Ids, answers \in AnswerSeqs, gap \in Gaps : Call(tx_hash, answers, gap)

SpecCall == InitCall /\ [][NextCall]_vars

\* ------------------------------ a call made while an earlier result is cached
\* The time since the earlier, successful call of the same lookup.
Ages == {0, cache_timeout - recovery_timeout}

\* The result cache after safe_blockfrost_call(api.transaction, 1) succeeded
\* age ticks ago.
WarmCache(age) ==
    ElapseCache(cached_blockfrost_call([k \in CacheKeys |-> None], cache_key(1), now,
                                       Response(Some(Height), Some(SlotNo))).bcache,
                age)

\* The caller has an earlier result cached, and calls for other hashes have
\* since failed c times in a row, the last failure at the present.
InitWarm ==
    /\ cb = IdleBreaker
    /\ \E age \in Ages : bcache = WarmCache(age)
    /\ circuit \in { FailuresInARow(c) : c \in 0..failure_threshold }
    /\ job = IdleJob
    /\ runs = 0
    /\ call = NoCall
    /\ calls = 0
    /\ rival = IdleJob
    /\ callers = [c \in Callers |-> IdleCaller]
    /\ records = [i \in Ids |-> NewTransaction(i, "pending")]
    /\ remote = [h \in Ids |-> ApiError("remote", 404)]

NextWarm == \E tx_hash \in Ids, answers \in AnswerSeqs, gap \in Gaps : Call(tx_hash, answers, gap)

SpecWarm == InitWarm /\ [][NextWarm]_vars

\* --------------------------------------------- the CircuitBreaker on its own
\* Time that passes between two operations on the circuit breaker.
Waits == {recovery_timeout - 1, recovery_timeout}

Min(a, b) == IF a < b THEN a ELSE b

InitBreaker ==
    /\ InitBase
    /\ records = [i \in Ids |-> NewTransaction(i, "pending")]
    /\ remote = [h \in Ids |-> ApiError("remote", 404)]

\* cb keeps, for the operations made so far: the last operation (op), the
\* entry it found (before), the answer of the last is_open (open), the number
\* of record_failure calls since the last record_success or the last is_open
\* that came after a threshold of failures and a recovery_timeout of quiet
\* (fails), whether there has been such an is_open since the last
\* record_success (recovered), whether every record_failure since the last
\* record_success came less than the entry's time-to-live after the one before
\* it (fresh), and the time since the last record_failure (idle, counted up to
\* the time-to-live).
RecordFailure ==
    /\ cb.fails < MaxFailures
    /\ circuit' = record_failure(circuit, now)
    /\ cb' = [cb EXCEPT !.op = "failure", !.before = circuit, !.fails = @ + 1,
                        !.fresh = @ /\ (\/ (cb.fails = 0 /\ ~cb.recovered)
                                        \/ cb.idle < 2 * recovery_timeout),
                        !.idle = 0]
    /\ UNCHANGED << records, remote, bcache, job, runs, call, calls, rival, callers >>

RecordSuccess ==
    /\ circuit' = record_success(circuit)
    /\ cb' = [cb EXCEPT !.op = "success", !.before = circuit, !.fails = 0,
                        !.fresh = TRUE, !.idle = 0, !.recovered = FALSE]
    /\ UNCHANGED << records, remote, bcache, job, runs, call, calls, rival, callers >>

IsOpen ==
    LET r == is_open(circuit, now)
        quiet == cb.fails >= failure_threshold /\ cb.idle >= recovery_timeout
    IN /\ circuit' = r.entry
       /\ cb' = [cb EXCEPT !.op = "query", !.before = circuit, !.open = r.open,
                           !.fails = IF quiet THEN 0 ELSE @,
                           !.recovered = @ \/ quiet]
       /\ UNCHANGED << records, remote, bcache, job, runs, call, calls, rival, callers >>

\* d ticks pass with no operation.
Pass(d) ==
    /\ cb.idle < 2 * recovery_timeout
    /\ circuit' = ElapseCircuit(circuit, d)
    /\ cb' = [cb EXCEPT !.op = "pass", !.before = circuit,
                        !.idle = Min(@ + d, 2 * recovery_timeout)]
    /\ UNCHANGED << records, remote, bcache, job, runs, call, calls, rival, callers >>

NextBreaker ==
    \/ RecordFailure
    \/ RecordSuccess
    \/ IsOpen
    \/ \E d \in Waits : Pass(d)

SpecBreaker == InitBreaker /\ [][NextBreaker]_vars

\* ------------------------------------------------ the cache wrapper on its own
\* Time that passes between two calls made through the cache wrapper.
CacheGaps == {0, cache_timeout - 1, cache_timeout}

InitCache ==
    /\ InitBase
    /\ records = [i \in Ids |-> NewTransaction(i, "pending")]
    /\ remote = [h \in Ids |-> ApiError("remote", 404)]

\* A caller calls the lookup of tx_hash through the cache wrapper alone, gap
\* ticks after the previous call; answer is what the lookup produces if it is
\* invoked.  The call's one attempt is recorded in the trace.
CachedCall(tx_hash, answer, gap) ==
    /\ calls < MaxLookups
    /\ \E bc \in {ElapseCache(bcache, gap)} :
       \E r \in {cached_blockfrost_call(bc, cache_key(tx_hash), now, answer)} :
          /\ bcache' = r.bcache
          /\ call' = [tx_hash |-> tx_hash, gap |-> gap, outcome |-> r.outcome,
                      trace |-> << [entry |-> None,
                                    cached |-> cache_get(bc[cache_key(tx_hash)], now),
                                    rejected |-> FALSE, invoked |-> r.invoked,
                                    outcome |-> r.outcome, success |-> 0, failure |-> 0,
                                    left |-> None, wait |-> 0] >>,
                      checked |-> check_transaction_status(r.outcome)]
    /\ calls' = calls + 1
    /\ UNCHANGED << records, remote, circuit, job, runs, cb, rival, callers >>

NextCache ==
    \E tx_hash \in Ids, answer \in Answers, gap \in CacheGaps : CachedCall(tx_hash, answer, gap)

SpecCache == InitCache /\ [][NextCache]_vars

\* ------------------------------------ calls through the circuit-breaker wrapper
\* A caller calls the lookup of tx_hash through with_circuit_breaker (and the
\* cache wrapper inside it), with no retry.  cb keeps the history as for the
\* circuit breaker on its own: the gate's is_open counts as a query, then the
\* call is rejected (rejections counts the rejections since the last call that
\* was let through), or succeeds, or fails and is recorded.
GuardedCall(tx_hash, answer) ==
    \E r \in {with_circuit_breaker(circuit, bcache, cache_key(tx_hash), now, answer)} :
       LET quiet == cb.fails >= failure_threshold /\ cb.idle >= recovery_timeout
           fails == IF quiet THEN 0 ELSE cb.fails
       IN /\ r.rejected => cb.rejections < MaxRejections
          /\ r.failure = 1 => fails < MaxFailures
          /\ circuit' = r.circuit
          /\ bcache' = r.bcache
          /\ cb' = IF r.rejected
                   THEN [cb EXCEPT !.op = "rejected", !.before = circuit, !.open = TRUE,
                                   !.rejections = @ + 1]
                   ELSE IF r.success = 1
                   THEN [cb EXCEPT !.op = "success", !.before = circuit, !.open = FALSE,
                                   !.fails = 0, !.fresh = TRUE, !.idle = 0,
                                   !.recovered = FALSE, !.rejections = 0]
                   ELSE [cb EXCEPT !.op = "failure", !.before = circuit, !.open = FALSE,
                                   !.fails = fails + 1,
                                   !.fresh = @ /\ (\/ (fails = 0 /\ ~(cb.recovered \/ quiet))
                                                   \/ cb.idle < 2 * recovery_timeout),
                                   !.recovered = @ \/ quiet,
                                   !.idle = 0, !.rejections = 0]
          /\ UNCHANGED << records, remote, job, runs, call, calls, rival, callers >>

\* d ticks pass with no call: the circuit entry and the cache age.
Rest(d) ==
    /\ cb.idle < 2 * recovery_timeout
    /\ circuit' = ElapseCircuit(circuit, d)
    /\ bcache' = ElapseCache(bcache, d)
    /\ cb' = [cb EXCEPT !.op = "pass", !.before = circuit,
                        !.idle = Min(@ + d, 2 * recovery_timeout)]
    /\ UNCHANGED << records, remote, job, runs, call, calls, rival, callers >>

NextGate ==
    \/ \E tx_hash \in Ids, answer \in Answers : GuardedCall(tx_hash, answer)
    \/ IsOpen
    \/ \E d \in Waits : Rest(d)

SpecGate == InitBreaker /\ [][NextGate]_vars

\* ------------------------------------------------ two overlapping invocations
\* Two invocations of the command run at the same time, with no lock between
\* them.  Each evaluates its queryset once and works on the rows it read; one
\* iteration of its loop is the lookup and the comparison with the status it
\* read, which changes the row object in memory, and then the save of that
\* object, with steps of the other invocation in between.
Invocations == {"job", "rival"}

TheJob(w) == IF w = "job" THEN job ELSE rival

\* The invocation after the row at idx is dealt with: the next row or the
\* summary.
Advanced(j) ==
    LET last == j.idx = Len(j.batch)
    IN [j EXCEPT !.pc = IF last THEN "done" ELSE "loop",
                 !.batch = IF last THEN << >> ELSE @,
                 !.idx = IF last THEN 0 ELSE @ + 1]

\* update_transaction_statuses up to the loop, API key configured.  The first
\* invocation is the one that selects first.
Select(w, limit) ==
    /\ TheJob(w).pc = "idle"
    /\ w = "rival" => job.pc # "idle"
    /\ \E j \in {StartedJob(SelectBatch(records, limit), limit, FALSE, TRUE)} :
          /\ job' = IF w = "job" THEN j ELSE job
          /\ rival' = IF w = "rival" THEN j ELSE rival
    /\ runs' = runs + 1
    /\ UNCHANGED << records, remote, bcache, circuit, call, calls, cb, callers >>

\* The first half of an iteration: processed_count += 1, the lookup, the
\* classification and, if the status differs from the one read, the new values
\* set on the row object.
Lookup(w, answers) ==
    /\ TheJob(w).pc = "loop"
    /\ \E j \in {TheJob(w)} :
       \E r \in {safe_blockfrost_call(circuit, bcache, j.batch[j.idx].id, answers)} :
       LET txn == j.batch[j.idx]
           c == check_transaction_status(r.outcome)
           new == IF needs_update(c.status, txn)
                  THEN [j EXCEPT !.pc = "save", !.processed = @ + 1,
                                 !.batch[j.idx] = UpdatedTransaction(txn, c, timezone_now)]
                  ELSE Advanced([j EXCEPT !.processed = @ + 1])
       IN /\ circuit' = r.circuit
          /\ bcache' = r.bcache
          /\ job' = IF w = "job" THEN new ELSE job
          /\ rival' = IF w = "rival" THEN new ELSE rival
    /\ UNCHANGED << records, remote, runs, call, calls, cb, callers >>

\* The second half: transaction.save() writes every field of the row object,
\* then updated_count += 1.
Save(w) ==
    /\ TheJob(w).pc = "save"
    /\ \E j \in {TheJob(w)} :
          /\ records' = [records EXCEPT ![j.batch[j.idx].id] = j.batch[j.idx]]
          /\ job' = IF w = "job" THEN Advanced([j EXCEPT !.updated = @ + 1]) ELSE job
          /\ rival' = IF w = "rival" THEN Advanced([j EXCEPT !.updated = @ + 1]) ELSE rival
    /\ UNCHANGED << remote, bcache, circuit, runs, call, calls, cb, callers >>

NextOverlap ==
    \/ \E w \in Invocations, limit \in Limits : Select(w, limit)
    \/ \E w \in Invocations, answers \in AnswerSeqs : Lookup(w, answers)
    \/ \E w \in Invocations : Save(w)

SpecOverlap == Init /\ [][NextOverlap]_vars

\* ---------------------------------------- record_failure called concurrently
\* Several threads call record_failure for the same service at the same time;
\* no time passes and nobody calls record_success.  The cache makes each get
\* and each set atomic, and nothing makes the pair atomic: a thread reads the
\* entry, other threads take steps, and then it writes.
\* failure_data = cache.get(cache_key)
Get(c) ==
    /\ callers[c].pc = "idle"
    /\ callers[c].done < MaxRecorded
    /\ callers' = [callers EXCEPT ![c] = [@ EXCEPT !.pc = "set", !.failure_data = circuit]]
    /\ UNCHANGED << records, remote, bcache, circuit, job, runs, call, calls, cb, rival >>

\* The count the thread read plus one, or 1, and cache.set(cache_key, ...).
Set(c) ==
    /\ callers[c].pc = "set"
    /\ circuit' = record_failure(callers[c].failure_data, now)
    /\ callers' = [callers EXCEPT ![c] = [@ EXCEPT !.pc = "idle", !.failure_data = None,
                                                    !.done = @ + 1]]
    /\ UNCHANGED << records, remote, bcache, job, runs, call, calls, cb, rival >>

NextRace == \E c \in Callers : Get(c) \/ Set(c)

SpecRace == InitBreaker /\ [][NextRace]_vars

\* ================================================================ claims
\* The circuit is open for an entry as the code's documentation defines it: the
\* entry is live, its count has reached the threshold and the last failure is
\* less than recovery_timeout old.
CircuitOpen(entry) ==
    /\ entry # None
    /\ entry[1].expires > now
    /\ entry[1].value.failure_count >= failure_threshold
    /\ now - entry[1].value.last_failure_time < recovery_timeout

Attempts == DOMAIN call.trace

\* C1: a record whose stored status is confirmed or failed is never written by
\* the job: no step changes any field of it.
C1_TerminalNeverWritten ==
    [][\A i \in Ids : is_final(records[i].status) => records'[i] = records[i]]_vars

\* C1 witness: a record the first run moved to a terminal status, while the
\* second run has examined a record.
C1_Witness ==
    /\ runs = 2
    /\ job.processed >= 1
    /\ \E i \in Ids : is_final(records[i].status) /\ records[i].updated_at = 1

\* C2: every status change the job applies follows pending -> {submitted,
\* confirmed, failed} or submitted -> {confirmed, failed}; never backward.
AllowedTransitions ==
    ({"pending"} \X {"submitted", "confirmed", "failed"})
        \cup ({"submitted"} \X {"confirmed", "failed"})

C2_OnlyForwardTransitions ==
    [][\A i \in Ids : records'[i].status # records[i].status
            => << records[i].status, records'[i].status >> \in AllowedTransitions]_vars

\* C3: with the remote's answers the same during both runs, the second of two
\* successive runs reports updated = 0.
C3_SecondRunUpdatesNothing ==
    (runs = 2 /\ job.pc = "done") => job.updated = 0

\* C4: an invocation with dry_run = true writes nothing: no step of it changes
\* a stored record.
C4_DryRunWritesNothing ==
    [][(job.dry_run /\ job.pc = "loop") => records' = records]_vars

\* C5: every record with status confirmed has confirmed_at, block_height and
\* slot all non-null.
C5_ConfirmedHasAllMetadata ==
    \A i \in Ids : records[i].status = "confirmed"
        => /\ records[i].confirmed_at # None
           /\ records[i].block_height # None
           /\ records[i].slot # None

\* C6: every record with a status other than confirmed has confirmed_at,
\* block_height and slot all null.
C6_UnconfirmedHasNoMetadata ==
    \A i \in Ids : records[i].status # "confirmed"
        => /\ records[i].confirmed_at = None
           /\ records[i].block_height = None
           /\ records[i].slot = None

\* C6 witness: the job has written a record to failed with details while
\* another record is confirmed.
C6_Witness ==
    \E i, j \in Ids :
        /\ records[i].status = "failed" /\ records[i].updated_at >= 1
        /\ records[j].status = "confirmed"

C8_OpenCircuitConsumesNoRetry ==
    (Attempts # {} /\ CircuitOpen(call.trace[1].entry))
        => Len(call.trace) = 1 /\ call.trace[1].wait = 0

\* C9: a call the gate lets through reports to the circuit breaker exactly
\* once: one record_success if it finally succeeds, one record_failure if it
\* finally fails.
C9_OneReportPerCall ==
    LET successes == Cardinality({k \in Attempts : call.trace[k].success = 1})
        failures == Cardinality({k \in Attempts : call.trace[k].failure = 1})
    IN (Attempts # {} /\ \A k \in Attempts : ~call.trace[k].rejected)
        => IF call.outcome.kind = "ok"
           THEN successes = 1 /\ failures = 0
           ELSE successes = 0 /\ failures = 1

\* C10: a call that finds a cached value returns it without consulting or
\* changing the circuit-breaker state and without invoking the lookup, also
\* when the circuit is open.
C10_CacheHitBypassesCircuit ==
    (Attempts # {} /\ call.trace[1].cached # None)
        => /\ call.outcome = call.trace[1].cached[1]
           /\ Len(call.trace) = 1
           /\ ~call.trace[1].invoked
           /\ call.trace[1].success = 0 /\ call.trace[1].failure = 0
           /\ call.trace[1].left = call.trace[1].entry

\* C11: a call that starts with the circuit closed and nothing cached, and
\* whose lookup fails with an ApiError whenever it is invoked, invokes the
\* lookup exactly max_retries + 1 = 3 times and then fails.
C11_RetryExhaustionThreeInvocations ==
    (/\ Attempts # {}
     /\ ~CircuitOpen(call.trace[1].entry)
     /\ \A k \in Attempts : call.trace[k].cached = None
     /\ \A k \in Attempts : call.trace[k].invoked => call.trace[k].outcome.kind = "ApiError")
        => /\ Cardinality({k \in Attempts : call.trace[k].invoked}) = max_retries + 1
           /\ call.outcome.kind = "ApiError"

\* C12: a call made while the result of an earlier successful call of the same
\* lookup is still cached invokes the lookup at no attempt: the two calls
\* cause the one invocation the first call made.
C12_SecondCallInvokesNothing ==
    (Attempts # {} /\ call.trace[1].cached # None)
        => \A k \in Attempts : ~call.trace[k].invoked

\* C13: a lookup that answers not-found is not a failure for the resilience
\* stack: the call ends with that attempt, nothing is reported to the circuit
\* breaker as a failure, and the record is classified pending.
C13_NotFoundNotRetried ==
    (/\ Attempts # {}
     /\ call.trace[1].invoked
     /\ call.trace[1].outcome = ApiError("remote", 404))
        => /\ Len(call.trace) = 1
           /\ call.trace[1].failure = 0
           /\ call.checked.status = "pending"

\* C14: the failure of a call the open circuit rejected can be told from every
\* failure of the remote: no error the remote produces has its exception class
\* and status code.
C14_CircuitOpenDistinguishable ==
    (Attempts # {} /\ call.trace[Len(call.trace)].rejected)
        => \A a \in Answers : a.kind # "ok" => Signal(a) # Signal(call.outcome)

\* C18: the result for a call's outcome is confirmed with {block_height, slot}
\* for a response with a block height, submitted without details for a response
\* without one, pending without details for ApiError 404, and failed with
\* {error, error_code} for every other error.
C18_ClassificationTable ==
    LET o == call.outcome
        c == call.checked
    IN Attempts # {} =>
        /\ (o.kind = "ok" /\ o.block_height # None)
              => /\ c.status = "confirmed" /\ c.keys = {"block_height", "slot"}
                 /\ c.block_height = o.block_height /\ c.slot = o.slot
        /\ (o.kind = "ok" /\ o.block_height = None)
              => c.status = "submitted" /\ ~c.details
        /\ (o.kind = "ApiError" /\ o.status_code = 404)
              => c.status = "pending" /\ ~c.details
        /\ (o.kind # "ok" /\ ~(o.kind = "ApiError" /\ o.status_code = 404))
              => /\ c.status = "failed" /\ c.keys = {"error", "error_code"}
                 /\ c.error = Some(o.message) /\ c.error_code = Some(o.status_code)

\* C15: is_open answers true exactly when it finds an entry with
\* failure_count >= failure_threshold whose last failure is less than
\* recovery_timeout old; it answers false and deletes the entry when the count
\* has reached the threshold and the timeout has elapsed; it answers false and
\* leaves the entry as it is when the count is below the threshold.
C15_IsOpenAnswer ==
    cb.op = "query" =>
        LET e == cb.before IN
        /\ cb.open <=> CircuitOpen(e)
        /\ (/\ e # None
            /\ e[1].value.failure_count >= failure_threshold
            /\ now - e[1].value.last_failure_time >= recovery_timeout)
              => ~cb.open /\ circuit = None
        /\ (e # None /\ e[1].value.failure_count < failure_threshold)
              => ~cb.open /\ circuit = e
        /\ e = None => ~cb.open /\ circuit = None

\* C15 witness: is_open has found an entry at the threshold after the recovery
\* timeout, answered false and deleted it.
C15_Witness ==
    /\ cb.op = "query"
    /\ cb.before # None
    /\ cb.before[1].value.failure_count >= failure_threshold
    /\ ~cb.open
    /\ circuit = None

\* C16 as stated: after 5 record_failure calls in a row is_open is true
\* (queried before recovery_timeout has elapsed); once recovery_timeout has
\* elapsed since the last failure is_open is false; after that query is_open
\* stays false until 5 further failures have been recorded.
C16_FiveFailuresOpen ==
    cb.op = "query" =>
        /\ (cb.fails >= failure_threshold /\ cb.idle < recovery_timeout) => cb.open
        /\ cb.idle >= recovery_timeout => ~cb.open
        /\ cb.fails < failure_threshold => ~cb.open

\* C16 as amended: the same for failures each recorded less than the entry's
\* time-to-live, 2 * recovery_timeout, after the one before it.
C16_FreshFailuresOpen ==
    cb.op = "query" =>
        /\ (cb.fresh /\ cb.fails >= failure_threshold /\ cb.idle < recovery_timeout)
              => cb.open
        /\ cb.idle >= recovery_timeout => ~cb.open
        /\ (cb.fresh /\ cb.fails < failure_threshold) => ~cb.open

\* C16 witness: the circuit has opened, recovered by the passing of time alone,
\* and opened again after five further failures.
C16_Witness ==
    /\ cb.op = "query"
    /\ cb.recovered
    /\ cb.fresh
    /\ cb.fails = failure_threshold
    /\ cb.open

\* C17: record_success leaves no entry, whatever it found; an is_open that
\* follows it answers false and a record_failure that follows it leaves a
\* failure count of 1.
C17_SuccessClears ==
    [][/\ cb'.op = "success" => circuit' = None
       /\ (cb.op = "success" /\ cb'.op = "query") => ~cb'.open
       /\ (cb.op = "success" /\ cb'.op = "failure")
             => circuit' # None /\ circuit'[1].value.failure_count = 1]_vars

\* C17 witness: record_success has been called while the circuit was open.
C17_Witness ==
    /\ cb.op = "success"
    /\ CircuitOpen(cb.before)
    /\ circuit = None

\* C19: when the job examines a record whose lookup reports a block height h
\* and a slot s, with nothing cached for it and the circuit closed, the record
\* becomes confirmed with block_height = h, slot = s and confirmed_at set, and
\* the step adds one to updated and nothing to errors.
C19_ConfirmationApplied ==
    [][(job.pc = "loop" /\ job'.processed = job.processed + 1) =>
        LET txn == job.batch[job.idx]
            a == remote[txn.id]
        IN (/\ a.kind = "ok" /\ a.block_height # None /\ a.slot # None
            /\ ~CircuitOpen(circuit)
            /\ cache_get(bcache[cache_key(txn.id)], now) = None)
              => /\ records'[txn.id].status = "confirmed"
                 /\ records'[txn.id].block_height = a.block_height
                 /\ records'[txn.id].slot = a.slot
                 /\ records'[txn.id].confirmed_at # None
                 /\ job'.updated = job.updated + 1
                 /\ job'.errors = job.errors]_vars

\* C19 witness: the first run is over and has confirmed a record whose lookup
\* reports a block height and a slot.
C19_Witness ==
    /\ runs = 1
    /\ job.pc = "done"
    /\ job.updated >= 1
    /\ job.errors = 0
    /\ \E i \in Ids :
          /\ remote[i] = Response(Some(Height), Some(SlotNo))
          /\ records[i].status = "confirmed"
          /\ records[i].block_height = Some(Height)
          /\ records[i].slot = Some(SlotNo)
          /\ records[i].confirmed_at = Some(1)

\* C20: a step that examines a record and leaves its status as it was stored
\* writes nothing: every field of every record, updated_at included, is
\* unchanged and updated is not incremented.
C20_EqualStatusNoWrite ==
    [][(job.pc = "loop" /\ job'.processed = job.processed + 1) =>
        LET txn == job.batch[job.idx]
        IN records'[txn.id].status = txn.status
              => records' = records /\ job'.updated = job.updated]_vars

\* C20 witness: a run is over that examined records, found each with the
\* status it had stored, and left a pending record as it was created.
C20_Witness ==
    /\ job.pc = "done"
    /\ job.processed >= 1
    /\ job.updated = 0
    /\ job.errors = 0
    /\ runs = 1
    /\ records[1].status = "pending"
    /\ records[1].updated_at = 0

\* C21: a pending record whose lookup always answers not-found stays pending in
\* every step of every run.
C21_NotFoundStaysPending ==
    [][\A i \in Ids :
          (remote[i] = ApiError("remote", 404) /\ records[i].status = "pending")
              => records'[i].status = "pending"]_vars

\* C26: a record becomes failed only in a step whose lookup for the record's
\* own hash answered with an error other than not-found; a rejection by the
\* open circuit never makes a record failed.
C26_FailedOnlyByOwnRemoteError ==
    [][\A i \in Ids :
          (records[i].status # "failed" /\ records'[i].status = "failed")
              => /\ remote[i].kind # "ok"
                 /\ ~(remote[i].kind = "ApiError" /\ remote[i].status_code = 404)]_vars

\* C22: an exception while a record is handled is counted in errors and the
\* batch goes on: each iteration examines the next selected record, the loop
\* ends only after the last one, so that every selected record is examined
\* once, and a step that counts an error leaves every stored record as it was.
C22_ErrorIsolated ==
    [][job.pc = "loop" =>
        /\ job.processed = job.idx - 1
        /\ job'.processed = job.processed + 1
        /\ job'.pc = "done" <=> job.idx = job.selected
        /\ job'.pc = "loop" => job'.idx = job.idx + 1 /\ job'.batch = job.batch
        /\ job'.pc = "done" => job'.processed = job'.selected
        /\ job'.errors \in {job.errors, job.errors + 1}
        /\ job'.errors = job.errors + 1
              => records' = records /\ job'.updated = job.updated]_vars

\* C22 witness: a run is over in which the write of the first record failed and
\* the second record was then examined and updated.
C22_Witness ==
    /\ runs = 1
    /\ job.pc = "done"
    /\ job.processed = 2
    /\ job.errors = 1
    /\ job.updated = 1
    /\ records[1].updated_at = 0
    /\ records[2].updated_at = 1

\* The non-terminal records.
NonTerminal(recs) == {i \in Ids : ~is_final(recs[i].status)}

\* The records written in the current run: the rows stamped with its number.
WrittenThisRun(recs, run) == {i \in Ids : recs[i].updated_at = run}

\* C23 as stated: a run selects min(limit, number of non-terminal records)
\* records; when it is over processed is that number, updated is the number of
\* records written in the run, errors counts only records whose handling
\* raised, and updated + errors <= processed.
C23_SummaryCounts ==
    [][/\ runs' = runs + 1
            => job'.selected = Min(job'.limit, Cardinality(NonTerminal(records)))
       /\ job'.errors # job.errors => (job.pc = "loop" \/ job'.errors = 0)
       /\ job.pc = "loop"
            => /\ job'.updated \in {job.updated, job.updated + 1}
               /\ job'.updated = job.updated + 1
                     <=> \E i \in Ids : records'[i].status # records[i].status
       /\ job'.pc = "done"
            => /\ job'.processed = job'.selected
               /\ job'.updated = Cardinality(WrittenThisRun(records', runs'))
               /\ job'.updated + job'.errors <= job'.processed]_vars

\* C23 as amended: the same for a run that does not return for a missing API
\* key; a run that does returns processed = 0, updated = 0 and errors = 1.
C23_SummaryCountsConfigured ==
    [][/\ runs' = runs + 1
            => job'.selected = Min(job'.limit, Cardinality(NonTerminal(records)))
       /\ job'.errors # job.errors
            => (job.pc = "loop" \/ job'.errors = 0 \/ job'.aborted)
       /\ job.pc = "loop"
            => /\ job'.updated \in {job.updated, job.updated + 1}
               /\ job'.updated = job.updated + 1
                     <=> \E i \in Ids : records'[i].status # records[i].status
       /\ (job'.pc = "done" /\ ~job'.aborted)
            => /\ job'.processed = job'.selected
               /\ job'.updated = Cardinality(WrittenThisRun(records', runs'))
               /\ job'.updated + job'.errors <= job'.processed
       /\ (job'.pc = "done" /\ job'.aborted)
            => job'.processed = 0 /\ job'.updated = 0 /\ job'.errors = 1]_vars

\* C23 witness: a second run with limit 1 is over, having examined one of two
\* non-terminal records and updated it.
C23_Witness ==
    /\ runs = 2
    /\ job.pc = "done"
    /\ ~job.aborted
    /\ job.limit = 1
    /\ job.processed = 1
    /\ job.updated = 1
    /\ Cardinality(WrittenThisRun(records, 2)) = 1
    /\ NonTerminal(records) # {}

\* The records a started run is going to examine.
Examined(j) == {j.batch[k].id : k \in 1..Len(j.batch)}

C25_MissingKeyAborts ==
    [][(runs' = runs + 1 /\ ~job'.configured /\ NonTerminal(records) # {})
            => /\ job'.aborted
               /\ job'.pc = "done"
               /\ Examined(job') = {}
               /\ job'.processed = 0
               /\ job'.updated = 0
               /\ job'.errors = 1
               /\ records' = records
               /\ \E gap \in Gaps : /\ circuit' = ElapseCircuit(circuit, gap)
                                    /\ bcache' = ElapseCache(bcache, gap)]_vars

\* C25 witness: a second run finds a non-terminal record and no API key, with
\* results of the first run still in the cache and in the circuit entry.
C25_Witness ==
    /\ runs = 2
    /\ job.pc = "done"
    /\ ~job.configured
    /\ job.aborted
    /\ job.selected = 1
    /\ job.processed = 0
    /\ job.errors = 1
    /\ circuit # None
    /\ \E k \in CacheKeys : bcache[k] # None

\* C27: in a call of safe_blockfrost_call the loop sleeps delay * backoff^(k-1)
\* after the k-th attempt failed with an ApiError, for k = 1..max_retries (one
\* tick, then two), and the next attempt finds the circuit entry and the cache
\* that much older; it sleeps after no other attempt: not after a success,
\* which ends the call with that result, and not after the last attempt, whose
\* error is the error of the call.
C27_BackoffSchedule ==
    Attempts # {} =>
        LET n == Len(call.trace) IN
        /\ n <= max_retries + 1
        /\ \A k \in 1..(n - 1) :
              /\ call.trace[k].outcome.kind = "ApiError"
              /\ call.trace[k].wait = delay * backoff ^ (k - 1)
              /\ call.trace[k + 1].entry = ElapseCircuit(call.trace[k].left, call.trace[k].wait)
        /\ (n >= 2 => call.trace[1].wait = 1) /\ (n >= 3 => call.trace[2].wait = 2)
        /\ call.trace[n].wait = 0
        /\ call.outcome = call.trace[n].outcome
        /\ call.outcome.kind = "ApiError" => n = max_retries + 1

\* C27 witness: a call that failed twice with an ApiError, slept one tick and
\* then two, and succeeded at the third attempt.
C27_Witness ==
    /\ Len(call.trace) = 3
    /\ call.trace[1].wait = 1
    /\ call.trace[2].wait = 2
    /\ call.trace[3].wait = 0
    /\ call.trace[3].invoked
    /\ call.outcome.kind = "ok"

\* C30: an attempt of safe_blockfrost_call whose lookup raises an exception
\* that is not an ApiError is the last attempt of the call: the lookup was
\* invoked at that attempt, no attempt follows it, the call fails with that
\* exception, and the attempt reported one failure to the circuit breaker, whose
\* entry holds it.
C30_OtherExceptionNotRetried ==
    \A k \in Attempts :
        call.trace[k].outcome.kind = "Exception"
            => /\ k = Len(call.trace)
               /\ call.trace[k].invoked
               /\ call.trace[k].wait = 0
               /\ call.outcome = call.trace[k].outcome
               /\ call.trace[k].failure = 1 /\ call.trace[k].success = 0
               /\ call.trace[k].left
                      = record_failure(is_open(call.trace[k].entry, now).entry, now)
               /\ call.trace[k].left[1].value.last_failure_time = now
               /\ circuit = call.trace[k].left

\* C30 witness: a call that starts with no failure on record, whose lookup
\* raises an exception other than ApiError at the first attempt.
C30_Witness ==
    /\ Len(call.trace) = 1
    /\ call.trace[1].entry = None
    /\ call.trace[1].invoked
    /\ call.outcome = OtherException
    /\ circuit # None
    /\ circuit[1].value.failure_count = 1

\* C28: record_failure leaves the entry (count + 1, now) when it finds an
\* entry with that count and (1, now) when it finds none, to expire
\* 2 * recovery_timeout later whatever the expiry of the entry it found; once
\* 2 * recovery_timeout have passed since the last record_failure there is no
\* entry, and the record_failure that comes then leaves a count of 1.
C28_FailureEntryLifetime ==
    [][/\ cb'.op = "failure"
            => /\ circuit' # None
               /\ circuit'[1].value.failure_count
                      = (IF circuit = None THEN 1 ELSE circuit[1].value.failure_count + 1)
               /\ circuit'[1].value.last_failure_time = now
               /\ circuit'[1].expires = now + 2 * recovery_timeout
       /\ cb'.idle >= 2 * recovery_timeout => circuit' = None
       /\ (cb'.op = "failure" /\ cb.idle >= 2 * recovery_timeout)
            => circuit'[1].value.failure_count = 1
       /\ (cb'.op = "pass" /\ circuit # None /\ cb'.idle < 2 * recovery_timeout)
            => /\ circuit' # None
               /\ circuit'[1].value.failure_count = circuit[1].value.failure_count
               /\ circuit'[1].expires = 2 * recovery_timeout - cb'.idle]_vars

\* C28 witness: a record_failure that follows earlier ones, with no
\* record_success and no recovery in between, found no entry and left a count
\* of 1: the earlier failures were more than the time-to-live old.
C28_Witness ==
    /\ cb.op = "failure"
    /\ cb.fails >= 2
    /\ ~cb.recovered
    /\ cb.before = None
    /\ circuit # None
    /\ circuit[1].value.failure_count = 1

\* C29: the cache holds successful results only.  A call through the cache
\* wrapper that finds a result stored less than cache_timeout ago returns it
\* without invoking the lookup and leaves it stored; any other call invokes
\* the lookup, stores the result for cache_timeout if the lookup succeeded and
\* stores nothing if it raised, so that the call for the same lookup that
\* follows a failed one invokes the lookup again.
C29_OnlySuccessesCached ==
    [][calls' = calls + 1 =>
        LET key == cache_key(call'.tx_hash)
            stored == bcache[key]
            live == stored # None /\ call'.gap < stored[1].expires
        IN /\ \A k \in CacheKeys : bcache'[k] # None => bcache'[k][1].value.kind = "ok"
           /\ stored # None => stored[1].expires <= cache_timeout
           /\ live => /\ ~call'.trace[1].invoked
                      /\ call'.outcome = stored[1].value
                      /\ bcache'[key] = Some([value |-> stored[1].value,
                                              expires |-> stored[1].expires - call'.gap])
           /\ ~live => /\ call'.trace[1].invoked
                       /\ call'.outcome.kind = "ok"
                            => bcache'[key] = Some([value |-> call'.outcome,
                                                    expires |-> cache_timeout])
                       /\ call'.outcome.kind # "ok" => bcache'[key] = None
           /\ (calls >= 1 /\ call.tx_hash = call'.tx_hash /\ call.outcome.kind # "ok")
                 => call'.trace[1].invoked]_vars

\* C29 witness: the third call, made one tick short of cache_timeout after the
\* second, found nothing stored for its lookup, invoked it and stored the
\* result.
C29_Witness ==
    /\ calls = 3
    /\ call.trace[1].invoked
    /\ call.outcome.kind = "ok"
    /\ call.gap = cache_timeout - 1
    /\ bcache[cache_key(call.tx_hash)] # None
    /\ bcache[cache_key(call.tx_hash)][1].expires = cache_timeout

\* C31: a call the open circuit rejects leaves the circuit entry as it found
\* it, failure count and last_failure_time included, and happens only less
\* than recovery_timeout after the last failure of the lookup; the entry's
\* last_failure_time is the time of that failure; and an is_open query made
\* recovery_timeout or more after it answers false, however many calls were
\* rejected in between.
C31_RejectionsDoNotExtend ==
    [][/\ cb'.op = "rejected"
            => /\ circuit' = circuit
               /\ cb.idle < recovery_timeout
               /\ CircuitOpen(circuit)
       /\ (circuit' # None /\ cb'.idle < 2 * recovery_timeout)
            => now - circuit'[1].value.last_failure_time = cb'.idle
       /\ (cb'.op = "query" /\ cb.idle >= recovery_timeout) => ~cb'.open]_vars

\* C31 witness: after calls were rejected by the open circuit, an is_open
\* query made recovery_timeout after the last failure of the lookup found the
\* entry at the threshold, answered false and deleted it.
C31_Witness ==
    /\ cb.op = "query"
    /\ cb.rejections = MaxRejections
    /\ cb.idle >= recovery_timeout
    /\ cb.before # None
    /\ cb.before[1].value.failure_count >= failure_threshold
    /\ ~cb.open
    /\ circuit = None

\* C32: a non-terminal record whose lookup reports a block height whenever it
\* is invoked eventually becomes confirmed, whatever is cached, whatever the
\* circuit entry and whatever the other records' lookups answer.  A record the
\* job has made failed is never selected again, so the record must never be
\* made failed: no step takes it from pending or submitted to failed.
C32_ConfirmableNeverFailed ==
    [][\A i \in Ids :
          (/\ ~is_final(records[i].status)
           /\ remote[i].kind = "ok"
           /\ Truthy(remote[i].block_height))
              => records'[i].status # "failed"]_vars

\* C33: under repeated runs with a fixed limit every non-terminal record is
\* eventually examined.  Runs that come back to the state the first run started
\* in (no row ever written, no circuit entry, nothing cached), with the same
\* limit and a non-terminal record left out again, can repeat for ever; so no
\* run after the first starts its loop in that state with such a record left
\* out.
C33_NoRunRepeatsTheFirst ==
    [][(/\ runs >= 1
        /\ runs' = runs + 1
        /\ job.pc = "done" /\ ~job.aborted /\ job.processed = job.limit
        /\ job'.pc = "loop" /\ job'.limit = job.limit)
            => ~(/\ \A i \in Ids : records[i].updated_at = 0
                 /\ circuit' = None
                 /\ \A k \in CacheKeys : bcache'[k] = None
                 /\ NonTerminal(records) \ Examined(job') # {})]_vars

\* C34: with two invocations overlapping, a record that is confirmed stays
\* confirmed, and its confirmed_at, block_height and slot stay set, at every
\* step of either invocation.
C34_ConfirmedNotOverwritten ==
    [][\A i \in Ids :
          records[i].status = "confirmed"
              => /\ records'[i].status = "confirmed"
                 /\ records[i].confirmed_at # None => records'[i].confirmed_at # None
                 /\ records[i].block_height # None => records'[i].block_height # None
                 /\ records[i].slot # None => records'[i].slot # None]_vars

RECURSIVE Recorded(_)
\* The record_failure calls the threads in S have completed.
Recorded(S) ==
    IF S = {} THEN 0
    ELSE LET c == CHOOSE x \in S : TRUE IN callers[c].done + Recorded(S \ {c})

\* C35: with record_failure called by concurrent threads, once n calls have
\* completed and none is under way the stored failure count is n, and is_open
\* answers true exactly when n has reached failure_threshold.
C35_NoLostIncrement ==
    (\A c \in Callers : callers[c].pc = "idle") =>
        LET n == Recorded(Callers) IN
        /\ n = 0 => circuit = None
        /\ n > 0 => circuit # None /\ circuit[1].value.failure_count = n
        /\ is_open(circuit, now).open <=> n >= failure_threshold

====
